---------------------------- MODULE Spec2Model ----------------------------
(***************************************************************************)
(* Coupled leaf gas-exchange solver: CoupledModel.main (both variants of   *)
(* solve_coupled_An_gs_leaf_temp_transpiration.py) and the Penman-Monteith *)
(* leaf energy balance (penman_monteith_leaf.py).                          *)
(*                                                                         *)
(* The source computes in floating point.  The model computes in fixed     *)
(* point on integers, every quantity in a unit that keeps the digits the   *)
(* code's tests and quotients depend on:                                   *)
(*   temperatures          centi-degrees (0.01 K), so 0.02 deg C is 2      *)
(*   wind                  cm s-1                                          *)
(*   leaf_width            mm                                              *)
(*   pressure, vpd, dleaf  Pa (vpd and dleaf are kPa in the source)        *)
(*   esat, slope, gamma    centi-Pa, centi-Pa K-1                          *)
(*   conductances          mmol m-2 s-1                                    *)
(*   An, et                umol m-2 s-1                                    *)
(*   Ca, Cs, Ci            ppm                                             *)
(*   rnet                  W m-2,  latent heat flux  deci-W m-2            *)
(*   lambda_et             J mol-1                                         *)
(* A quotient is the floor of the source's quotient in these units.  A     *)
(* Python exception raised by an arithmetic step is the err field of the   *)
(* step's result.                                                          *)
(***************************************************************************)
EXTENDS Integers, Sequences, FiniteSets, TLC

(***************************************************************************)
(* Bounds of the model.                                                    *)
(***************************************************************************)
MaxIterMax == 1
MaxSolves == 2
MaxPoints == 2

(***************************************************************************)
(* Program constants.                                                      *)
(***************************************************************************)
deg2kelvin == 27315
ConvergenceTol == 2
\* the module-level wind of the sweep script, which get_values reads
wind_global == 250

\* math.fabs
fabs(x) == IF x < 0 THEN 0 - x ELSE x

RECURSIVE SqrtBis(_, _, _)
SqrtBis(n, lo, hi) ==
    IF hi - lo <= 1 THEN lo
    ELSE LET mid == (lo + hi) \div 2
         IN  IF mid * mid <= n THEN SqrtBis(n, mid, hi) ELSE SqrtBis(n, lo, mid)

\* math.sqrt on a non-negative integer, rounded down
ISqrt(n) == SqrtBis(n, 0, 46341)

(***************************************************************************)
(* PenmanMonteith.calc_esat, centi-Pa.  a * exp(b * tair / (c + tair)) is  *)
(* tabulated (centi-Pa) at the air temperatures of the model and 0.1 K     *)
(* above each; f = 1.0007 + 3.46 * 10E-8 * pressure multiplies it.         *)
(***************************************************************************)
TetensTable ==
    [t \in {2000, 2010, 2500, 2510} |->
        CASE t = 2000 -> 233728
          [] t = 2010 -> 235180
          [] t = 2500 -> 316703
          [] t = 2510 -> 318597]

calc_esat(tair, pressure) ==
    LET aexp == TetensTable[tair]
        \* (f - 1) in 1e-5: 0.0007 + 3.46e-7 * pressure
        fm1  == 70 + (346 * pressure) \div 10000
    IN  aexp + (aexp * fm1) \div 100000

(***************************************************************************)
(* PenmanMonteith.calc_et.  Returns [err, et, lambda_et]: et in umol m-2   *)
(* s-1, lambda_et (the second element of the returned pair) in deci-W m-2. *)
(***************************************************************************)
\* latent heat of water vapour at air temperature (J mol-1):
\* (h2olv0 - 2.365E3 * tair) * h2omw
latent_heat(tair) == (((250100000 - 2365 * tair) \div 1000) * 18) \div 100

\* slope of the saturation curve, finite difference over 0.1 K
esat_slope(tair, pressure) ==
    (calc_esat(tair + 10, pressure) - calc_esat(tair, pressure)) * 10

\* psychrometric constant: cp * air_mass * pressure / lambda_et
psychrometric(pressure, lambda_et) == (2929 * pressure) \div lambda_et

\* the else branch: et = arg1 / arg2, returned as (et / lambda_et, LE_et)
penman_monteith(vpd, gh, gw, rnet, slope, gamma, lambda_et) ==
    IF gw = 0
    THEN [err |-> "ZeroDivisionError", et |-> 0, lambda_et |-> 0]
    ELSE LET arg1 == (slope * rnet) \div 100
                     + (((vpd * gh) \div 1000) * 2929) \div 100
             arg2 == slope + (gamma * gh) \div gw
         IN  IF arg2 = 0
             THEN [err |-> "ZeroDivisionError", et |-> 0, lambda_et |-> 0]
             ELSE LET et == (arg1 * 1000) \div arg2
                  IN  [err |-> "ok", et |-> (et * 100000) \div lambda_et,
                       lambda_et |-> et]

\* calc_et with the test gw < 0.0 in place of gw <= 0.0
calc_et_lt(tleaf, tair, vpd, pressure, wind, par, gh, gw, rnet) ==
    LET lambda_et == latent_heat(tair)
        slope == esat_slope(tair, pressure)
        gamma == psychrometric(pressure, lambda_et)
    IN  IF gw < 0
        THEN [err |-> "ok", et |-> 0, lambda_et |-> 0]
        ELSE penman_monteith(vpd, gh, gw, rnet, slope, gamma, lambda_et)

calc_et(tleaf, tair, vpd, pressure, wind, par, gh, gw, rnet) ==
    LET lambda_et == latent_heat(tair)
        slope == esat_slope(tair, pressure)
        gamma == psychrometric(pressure, lambda_et)
    IN  IF gw <= 0
        THEN \* gs = 0, transpiration = 0
             [err |-> "ok", et |-> 0, lambda_et |-> 0]
        ELSE penman_monteith(vpd, gh, gw, rnet, slope, gamma, lambda_et)

(***************************************************************************)
(* PenmanMonteith.calc_conductances.  Returns [err, grn, gh, gbH, gw].     *)
(* tair_k in centi-K, cmolar in mmol m-3.                                  *)
(***************************************************************************)
NoConductances(e) == [err |-> e, grn |-> 0, gh |-> 0, gbH |-> 0, gw |-> 0]

calc_conductances(leaf_width, tair_k, tleaf, tair, wind, gsc, cmolar) ==
    LET tk == tair_k \div 100
        \* radiation conductance
        grn == (((tk * tk * tk) \div 1000) * 7666) \div 1000000
    IN
    IF leaf_width = 0 THEN NoConductances("ZeroDivisionError")
    ELSE IF (wind > 0 /\ leaf_width < 0) THEN NoConductances("ValueError")
    ELSE
    LET \* forced convection: 0.003 * sqrt(wind / leaf_width) * cmolar
        root == ISqrt((wind * 100000) \div leaf_width)
        gbHw == (3 * root * cmolar) \div 100000
        grashof_num == (16 * fabs(tleaf - tair)
                           * leaf_width * leaf_width * leaf_width) \div 10000
    IN
    IF grashof_num < 0 THEN NoConductances("ValueError")
    ELSE
    LET \* free convection: 0.5 * dheat * grashof_num**0.25 / leaf_width * cmolar
        root4 == ISqrt(ISqrt(grashof_num * 10000) * 100)
        gbHf  == ((((root4 * cmolar) \div 1000) * 1075) \div 10000) \div leaf_width
        gbH   == gbHw + gbHf
        gh    == 2 * (gbH + grn)
        gbw   == (gbH * 157) \div 100
        gsw   == (gsc * 157) \div 100
    IN
    IF gbw + gsw = 0 THEN NoConductances("ZeroDivisionError")
    ELSE [err |-> "ok", grn |-> grn, gh |-> gh, gbH |-> gbH,
          gw |-> (gbw * gsw) \div (gbw + gsw)]


(***************************************************************************)
(* LeafEnergyBalance.calc_leaf_temp is imported by the solver and is not   *)
(* part of the sources; it is composed here, as section 4.4 of the         *)
(* specification describes it, from calc_conductances and calc_et above,   *)
(* in the order of PenmanMonteith.main.  The net radiation and the new     *)
(* leaf temperature it derives are its inputs rnet and tnew.               *)
(* Returns [err, new_tleaf, et, gbH, gw].                                  *)
(***************************************************************************)
calc_leaf_temp(leaf_width, tleaf, tair, gs, par, vpd, pressure, wind, rnet, tnew) ==
    LET tair_k == tair + deg2kelvin
        cmolar == (pressure * 10000) \div ((8314 * tair_k) \div 10000)
        c == calc_conductances(leaf_width, tair_k, tleaf, tair, wind, gs, cmolar)
    IN  IF c.err # "ok"
        THEN [err |-> c.err, new_tleaf |-> 0, et |-> 0, gbH |-> 0, gw |-> 0]
        ELSE LET e == calc_et(tleaf, tair, vpd, pressure, wind, par, c.gh, c.gw, rnet)
             IN  [err |-> e.err, new_tleaf |-> tnew, et |-> e.et,
                  gbH |-> c.gbH, gw |-> c.gw]

(***************************************************************************)
(* Inputs.                                                                 *)
(***************************************************************************)
\* the solver file: src/solve_... computes assimilation and conductance
\* jointly, src/crap/solve_... calls the conductance model separately
Variants == {"joint", "separate"}

\* the parameters of the __main__ blocks, and non-physical ones
PhysicalParams ==
    [g0 |-> 10, g1 |-> 9, D0 |-> 1500, Vcmax25 |-> 30, Jmax25 |-> 60,
     Rd25 |-> 2, leaf_width |-> 20, SW_abs |-> 80]

NonPhysicalParams ==
    { [PhysicalParams EXCEPT !.leaf_width = 0],
      [PhysicalParams EXCEPT !.leaf_width = 0 - 20],
      [PhysicalParams EXCEPT !.Vcmax25 = 0, !.Jmax25 = 0 - 60] }

\* the arguments CoupledModel is constructed with; gs_model defaults to
\* None in the second variant and is required in the first.  The cap test
\* is the same statement in both files: the range of iter_max is explored
\* on the first, the second runs with iter_max = 0
ConstructorArgs(v) ==
    { PhysicalParams @@ [gs_model |-> "leuning", iter_max |-> n] :
        n \in IF v = "joint" THEN 0..MaxIterMax ELSE {0} }
    \cup { PhysicalParams @@ [gs_model |-> "medlyn", iter_max |-> 0] }
    \cup { PhysicalParams @@ [gs_model |-> "None", iter_max |-> 0] :
             x \in IF v = "separate" THEN {v} ELSE {} }
    \cup { p @@ [gs_model |-> "leuning", iter_max |-> 0] : p \in NonPhysicalParams }

\* tair, par, vpd, wind, pressure, Ca
Environments ==
    { [tair |-> 2000, par |-> 1500, vpd |-> 2000, wind |-> 250,
       pressure |-> 101325, Ca |-> 800],
      [tair |-> 2500, par |-> 1500, vpd |-> 1000, wind |-> 250,
       pressure |-> 101325, Ca |-> 400],
      [tair |-> 2000, par |-> 1500, vpd |-> 2000, wind |-> 0,
       pressure |-> 101325, Ca |-> 800] }

NoEnv == [tair |-> 0, par |-> 0, vpd |-> 0, wind |-> 0, pressure |-> 0, Ca |-> 0]

\* values the imported sub-models may return: assimilation, and the
\* conductance that goes with it (none without assimilation, negative with
\* net respiration)
AnSet == {0 - 2, 0, 12}
GsSet(an) == IF an > 0 THEN {150} ELSE IF an = 0 THEN {0} ELSE {0 - 50}
RnetSet == {400}
\* new leaf temperature, relative to the leaf temperature passed in
DeltaSet == {0 - 1, 2}

\* type, message format and formatted values of an exception, and the
\* statement that raised it
NoExc == [type |-> "", fmt |-> "", values |-> <<>>, at |-> ""]
\* the exception without the count
NoConvergence_bare(n) ==
    [type |-> "Exception", fmt |-> "No convergence", values |-> <<>>,
     at |-> "raise"]

\* raise Exception('No convergence: %d' % (iter))
NoConvergence(n) ==
    [type |-> "Exception", fmt |-> "No convergence: %d", values |-> <<n>>,
     at |-> "raise"]
Fault(e, at) == [type |-> e, fmt |-> "", values |-> <<>>, at |-> at]

Terminal == {"returned", "raised", "fault"}

VARIABLES
    pc,         \* position of the program
    variant,    \* which solver file is running
    self,       \* the CoupledModel instance's attributes
    env,        \* the arguments of the current main call
    dleaf, Cs, Ci, Tleaf, Tleaf_K, iter,            \* locals of main
    An, gs, new_tleaf, et, gbH, gw,                 \* locals of main
    result,     \* the returned tuple (An, gs, et)
    exc,        \* the exception main raised
    farq, stom, leaf,   \* the values the imported pure functions have returned
    calls,      \* sub-model calls of the current main call
    lastPhoto, lastCond, lastEnergy,  \* arguments of the latest calls
    gsBy,       \* the sub-model that produced gs
    solves,     \* main calls so far
    seen,       \* arguments and outcome of every finished main call
    sweep_pc,   \* position of get_values
    sweep_args, \* the arguments of get_values
    sweep_i,    \* elements of tair the for loop has taken
    store,      \* local of get_values
    sweep_result    \* the list get_values returned

locals == <<dleaf, Cs, Ci, Tleaf, Tleaf_K, iter, An, gs, new_tleaf, et, gbH, gw>>
oracle == <<farq, stom, leaf>>
log    == <<calls, lastPhoto, lastCond, lastEnergy, gsBy>>
sweep  == <<sweep_pc, sweep_args, sweep_i, store, sweep_result>>
vars   == <<pc, variant, self, env, locals, result, exc, oracle, log, solves, seen,
            sweep>>

NoSelf == [p \in {"g0", "g1", "D0", "Vcmax25", "Jmax25", "Rd25", "leaf_width",
                  "SW_abs", "iter_max"} |-> 0] @@ [gs_model |-> "None"]
NoCalls == [photo |-> 0, cond |-> 0, energy |-> 0]
NoArgs == <<>>

\* get_values has not been called
NoSweep ==
    /\ sweep_pc = "script"
    /\ sweep_args = NoArgs
    /\ sweep_i = 0
    /\ store = <<>>
    /\ sweep_result = <<>>

Init ==
    /\ pc = "new"
    /\ variant \in Variants
    /\ self = NoSelf
    /\ env = NoEnv
    /\ dleaf = 0 /\ Cs = 0 /\ Ci = 0 /\ Tleaf = 0 /\ Tleaf_K = 0 /\ iter = 0
    /\ An = 0 /\ gs = 0 /\ new_tleaf = 0 /\ et = 0 /\ gbH = 0 /\ gw = 0
    /\ result = <<>>
    /\ exc = NoExc
    /\ farq = <<>> /\ stom = <<>> /\ leaf = <<>>
    /\ calls = NoCalls
    /\ lastPhoto = NoArgs /\ lastCond = NoArgs /\ lastEnergy = NoArgs
    /\ gsBy = "none"
    /\ solves = 0
    /\ seen = {}
    /\ NoSweep

(***************************************************************************)
(* The imported sub-models (FarquharC3.calc_photosynthesis, the stomatal   *)
(* conductance strategies, the net radiation and new leaf temperature of   *)
(* LeafEnergyBalance) are pure functions whose code is not in the sources. *)
(* Each returns any value of its range the first time it is called with    *)
(* given arguments, and that same value on every later call with them.     *)
(***************************************************************************)
Returns(memo, key, range) == IF key \in DOMAIN memo THEN {memo[key]} ELSE range
Remember(memo, key, val) == IF key \in DOMAIN memo THEN memo ELSE memo @@ (key :> val)

Outcome(p, r, e, c) == [env |-> env, pc |-> p, result |-> r, exc |-> e,
                        passes |-> c.energy]

\* main returns or raises
Finish(p, r, e, c) ==
    /\ pc' = p
    /\ result' = r
    /\ exc' = e
    /\ seen' = seen \cup {Outcome(p, r, e, c)}

Running == /\ result' = result /\ exc' = exc /\ seen' = seen

\* a constructor that rejects a non-positive leaf width or capacity
CoupledModel_init_validating ==
    /\ pc = "new"
    /\ \E a \in ConstructorArgs(variant) :
          IF a.leaf_width > 0 /\ a.Vcmax25 > 0 /\ a.Jmax25 > 0
          THEN self' = a /\ pc' = "idle" /\ exc' = exc
          ELSE self' = self /\ pc' = "fault"
               /\ exc' = Fault("InvalidParameterError", "__init__")
    /\ UNCHANGED <<variant, sweep, env, locals, result, oracle, log, solves, seen>>

(***************************************************************************)
(* CoupledModel.__init__: stores its arguments.                            *)
(***************************************************************************)
CoupledModel_init ==
    /\ pc = "new"
    /\ \E a \in ConstructorArgs(variant) : self' = a
    /\ pc' = "idle"
    /\ UNCHANGED <<variant, sweep, env, locals, result, exc, oracle, log, solves, seen>>

\* Cs starting from the discounted Ci
InitialCs_discounted(Ca) == (Ca * 7) \div 10

\* Cs = Ca
InitialCs(Ca) == Ca

\* the counter kept from the previous call
InitialIter_stale == iter

\* iter = 0
InitialIter == 0

(***************************************************************************)
(* main, up to the loop: the initial values.                               *)
(***************************************************************************)
main_entry(e) ==
    /\ env' = e
    /\ dleaf' = e.vpd
    /\ Cs' = InitialCs(e.Ca)
    /\ Ci' = IF variant = "separate" THEN (e.Ca * 7) \div 10 ELSE 0
    /\ Tleaf' = e.tair
    /\ Tleaf_K' = e.tair + deg2kelvin
    /\ iter' = InitialIter
    /\ An' = 0 /\ gs' = 0 /\ new_tleaf' = 0 /\ et' = 0 /\ gbH' = 0 /\ gw' = 0
    /\ result' = <<>>
    /\ exc' = NoExc
    /\ calls' = NoCalls
    /\ lastPhoto' = NoArgs /\ lastCond' = NoArgs /\ lastEnergy' = NoArgs
    /\ gsBy' = "none"
    /\ solves' = solves + 1
    /\ pc' = "photo"
    /\ UNCHANGED <<variant, self, oracle, seen>>

\* a call of main on the instance, from the __main__ block
main_initialise(e) ==
    /\ pc \in {"idle"} \cup Terminal
    /\ solves < MaxSolves
    /\ main_entry(e)
    /\ UNCHANGED sweep

PhotoArgs ==
    IF variant = "joint"
    THEN [Cs |-> Cs, Tleaf |-> Tleaf_K, Par |-> env.par, Jmax25 |-> self.Jmax25,
          Vcmax25 |-> self.Vcmax25, Rd25 |-> self.Rd25, vpd |-> dleaf,
          gs_model |-> self.gs_model]
    ELSE [Ci |-> Cs, Tleaf |-> Tleaf_K, Par |-> env.par, Jmax25 |-> self.Jmax25,
          Vcmax25 |-> self.Vcmax25, Rd25 |-> self.Rd25]

PhotoRange ==
    IF variant = "joint"
    THEN UNION {[An : {a}, gs : GsSet(a)] : a \in AnSet}
    ELSE [An : AnSet]

(***************************************************************************)
(* Loop body, F.calc_photosynthesis(...).                                  *)
(***************************************************************************)
Photosynthesis ==
    /\ pc = "photo"
    /\ \E r \in Returns(farq, PhotoArgs, PhotoRange) :
          /\ farq' = Remember(farq, PhotoArgs, r)
          /\ An' = r.An
          /\ IF variant = "joint"
             THEN gs' = r.gs /\ gsBy' = "farquhar" /\ pc' = "energy"
             ELSE gs' = gs /\ gsBy' = gsBy /\ pc' = "cond"
    /\ calls' = [calls EXCEPT !.photo = @ + 1]
    /\ lastPhoto' = PhotoArgs
    /\ Running
    /\ UNCHANGED <<variant, sweep, self, env, dleaf, Cs, Ci, Tleaf, Tleaf_K, iter,
                   new_tleaf, et, gbH, gw, stom, leaf, lastCond, lastEnergy,
                   solves>>

\* the strategy the loop body selects: S.leuning or S.medlyn
Strategy(gs_model) == gs_model

CondArgs(by) == [model |-> by, dleaf |-> dleaf, An |-> An, Cs |-> Cs]

(***************************************************************************)
(* Loop body of the second variant: gs = S.leuning(...) or S.medlyn(...).  *)
(* With any other gs_model gs stays unbound and reading it raises.         *)
(***************************************************************************)
Conductance ==
    /\ pc = "cond"
    /\ IF self.gs_model \in {"leuning", "medlyn"}
       THEN LET a == CondArgs(Strategy(self.gs_model))
            IN  /\ \E g \in Returns(stom, a, GsSet(a.An)) :
                      /\ stom' = Remember(stom, a, g)
                      /\ gs' = g
                /\ gsBy' = a.model
                /\ calls' = [calls EXCEPT !.cond = @ + 1]
                /\ lastCond' = a
                /\ pc' = "energy"
                /\ Running
       ELSE /\ Finish("fault", <<>>, Fault("UnboundLocalError", "gs"), calls)
            /\ UNCHANGED <<stom, gs, gsBy, calls, lastCond>>
    /\ UNCHANGED <<variant, sweep, self, env, dleaf, Cs, Ci, Tleaf, Tleaf_K, iter, An,
                   new_tleaf, et, gbH, gw, farq, leaf, lastPhoto, lastEnergy,
                   solves>>

\* the energy balance called with the leaf-to-air deficit of the last pass
EnergyArgs_leaf_deficit ==
    [tleaf |-> Tleaf, tair |-> env.tair, gs |-> gs, par |-> env.par,
     vpd |-> dleaf, pressure |-> env.pressure, wind |-> env.wind]

EnergyArgs ==
    [tleaf |-> Tleaf, tair |-> env.tair, gs |-> gs, par |-> env.par,
     vpd |-> env.vpd, pressure |-> env.pressure, wind |-> env.wind]

(***************************************************************************)
(* Loop body, L.calc_leaf_temp(Tleaf, tair, gs, par, vpd, pressure, wind). *)
(***************************************************************************)
EnergyBalance ==
    /\ pc = "energy"
    /\ \E o \in Returns(leaf, EnergyArgs, [rnet : RnetSet, delta : DeltaSet]) :
          LET a == EnergyArgs
              r == calc_leaf_temp(self.leaf_width, a.tleaf, a.tair, a.gs, a.par,
                                  a.vpd, a.pressure, a.wind,
                                  o.rnet, a.tleaf + o.delta)
              c == [calls EXCEPT !.energy = @ + 1]
          IN  /\ leaf' = Remember(leaf, EnergyArgs, o)
              /\ calls' = c
              /\ IF r.err = "ok"
                 THEN /\ new_tleaf' = r.new_tleaf /\ et' = r.et
                      /\ gbH' = r.gbH /\ gw' = r.gw
                      /\ pc' = "update"
                      /\ Running
                 ELSE /\ Finish("fault", <<>>, Fault(r.err, "calc_leaf_temp"), c)
                      /\ UNCHANGED <<new_tleaf, et, gbH, gw>>
    /\ lastEnergy' = EnergyArgs
    /\ UNCHANGED <<variant, sweep, self, env, dleaf, Cs, Ci, Tleaf, Tleaf_K, iter, An,
                   gs, farq, stom, lastPhoto, lastCond, gsBy, solves>>

\* Cs left at the ambient CO2
surface_co2_ambient(Ca, an, gbh) == Ca

\* Cs = Ca - An / gbc with gbc = gbH * GBH_2_GBC (gbH / GBHGBC), ppm
surface_co2(Ca, an, gbh) == Ca - (an * 1320) \div gbh

\* Ci = Cs - An / (gs / GSWGSC), ppm
internal_co2(cs, an, g) == cs - (an * 1570) \div g

\* dleaf = et * pressure / gw * pa_2_kpa, here in Pa
leaf_deficit(e, pressure, g) == (e * pressure) \div (g * 1000)

(***************************************************************************)
(* Loop body, the updates of Cs, (Ci) and dleaf.  A division by zero       *)
(* raises ZeroDivisionError and leaves the later assignments undone.       *)
(***************************************************************************)
Update ==
    /\ pc = "update"
    /\ IF gbH = 0
       THEN /\ Finish("fault", <<>>, Fault("ZeroDivisionError", "Cs"), calls)
            /\ UNCHANGED <<Cs, Ci, dleaf>>
       ELSE /\ Cs' = surface_co2(env.Ca, An, gbH)
            /\ IF variant = "separate" /\ gs = 0
               THEN /\ Finish("fault", <<>>,
                                Fault("ZeroDivisionError", "Ci"), calls)
                    /\ UNCHANGED <<Ci, dleaf>>
               ELSE /\ Ci' = IF variant = "separate"
                             THEN internal_co2(Cs', An, gs) ELSE Ci
                    /\ IF gw = 0
                       THEN /\ Finish("fault", <<>>,
                                      Fault("ZeroDivisionError", "dleaf"),
                                      calls)
                            /\ UNCHANGED dleaf
                       ELSE /\ dleaf' = leaf_deficit(et, env.pressure, gw)
                            /\ pc' = "test"
                            /\ Running
    /\ UNCHANGED <<variant, sweep, self, env, Tleaf, Tleaf_K, iter, An, gs, new_tleaf,
                   et, gbH, gw, oracle, log, solves>>

\* if math.fabs(Tleaf - new_tleaf) < 0.02
Converged_signed(tleaf, tnew) == tleaf - tnew < ConvergenceTol
Converged(tleaf, tnew) == fabs(tleaf - tnew) < ConvergenceTol

\* if iter > self.iter_max
CapExceeded(i, iter_max) == i > iter_max

\* the pass with the cap tested before the convergence
Test_cap_first ==
    /\ pc = "test"
    /\ IF CapExceeded(iter, self.iter_max)
       THEN /\ Finish("raised", <<>>, NoConvergence(iter), calls)
            /\ UNCHANGED <<Tleaf, Tleaf_K, iter>>
       ELSE IF Converged(Tleaf, new_tleaf)
       THEN /\ IF variant = "joint"
               THEN Finish("returned", <<An, gs, et>>, NoExc, calls)
               ELSE pc' = "final" /\ Running
            /\ UNCHANGED <<Tleaf, Tleaf_K, iter>>
       ELSE /\ Tleaf' = new_tleaf
            /\ Tleaf_K' = new_tleaf + deg2kelvin
            /\ iter' = iter + 1
            /\ pc' = "photo"
            /\ Running
    /\ UNCHANGED <<variant, sweep, self, env, dleaf, Cs, Ci, An, gs, new_tleaf, et,
                   gbH, gw, oracle, log, solves>>

(***************************************************************************)
(* Loop body, from the convergence test to the end of the pass.            *)
(***************************************************************************)
Test ==
    /\ pc = "test"
    /\ IF Converged(Tleaf, new_tleaf)
       THEN \* break
            /\ IF variant = "joint"
               THEN Finish("returned", <<An, gs, et>>, NoExc, calls)
               ELSE pc' = "final" /\ Running
            /\ UNCHANGED <<Tleaf, Tleaf_K, iter>>
       ELSE IF CapExceeded(iter, self.iter_max)
       THEN /\ Finish("raised", <<>>, NoConvergence(iter), calls)
            /\ UNCHANGED <<Tleaf, Tleaf_K, iter>>
       ELSE /\ Tleaf' = new_tleaf
            /\ Tleaf_K' = new_tleaf + deg2kelvin
            /\ iter' = iter + 1
            /\ pc' = "photo"
            /\ Running
    /\ UNCHANGED <<variant, sweep, self, env, dleaf, Cs, Ci, An, gs, new_tleaf, et,
                   gbH, gw, oracle, log, solves>>

(***************************************************************************)
(* Second variant, after the loop: An is recalculated from the resolved    *)
(* Cs and Tleaf_K ...                                                      *)
(***************************************************************************)
FinalPhotosynthesis ==
    /\ pc = "final"
    /\ \E r \in Returns(farq, PhotoArgs, PhotoRange) :
          /\ farq' = Remember(farq, PhotoArgs, r)
          /\ An' = r.An
    /\ calls' = [calls EXCEPT !.photo = @ + 1]
    /\ lastPhoto' = PhotoArgs
    /\ pc' = "final_gs"
    /\ Running
    /\ UNCHANGED <<variant, sweep, self, env, dleaf, Cs, Ci, Tleaf, Tleaf_K, iter, gs,
                   new_tleaf, et, gbH, gw, stom, leaf, lastCond, lastEnergy,
                   gsBy, solves>>

\* the strategy called after the loop: gs = S.leuning(dleaf, An, Cs)
FinalStrategy(gs_model) == "leuning"

(***************************************************************************)
(* ... and gs from it, and main returns (An, gs, et).                      *)
(***************************************************************************)
FinalConductance ==
    /\ pc = "final_gs"
    /\ LET a == CondArgs(FinalStrategy(self.gs_model))
           c == [calls EXCEPT !.cond = @ + 1]
       IN  /\ \E g \in Returns(stom, a, GsSet(a.An)) :
                 /\ stom' = Remember(stom, a, g)
                 /\ gs' = g
                 /\ Finish("returned", <<An, g, et>>, NoExc, c)
           /\ gsBy' = a.model
           /\ calls' = c
           /\ lastCond' = a
    /\ UNCHANGED <<variant, sweep, self, env, dleaf, Cs, Ci, Tleaf, Tleaf_K, iter, An,
                   new_tleaf, et, gbH, gw, farq, leaf, lastPhoto, lastEnergy,
                   solves>>

Next ==
    \/ CoupledModel_init
    \/ \E e \in Environments : main_initialise(e)
    \/ Photosynthesis
    \/ Conductance
    \/ EnergyBalance
    \/ Update
    \/ Test
    \/ FinalPhotosynthesis
    \/ FinalConductance

Spec == Init /\ [][Next]_vars

\* main runs to its end once called: nothing suspends the loop
FairSpec == Spec /\ WF_vars(Photosynthesis \/ Conductance \/ EnergyBalance
                            \/ Update \/ Test \/ FinalPhotosynthesis
                            \/ FinalConductance)

(***************************************************************************)
(* PenmanMonteith.calc_et on its own: the arguments are drawn from the     *)
(* sets below and the function is applied to them once.                    *)
(***************************************************************************)
EtArguments ==
    [tleaf : {2000, 2150}, tair : {2000, 2500}, vpd : {0, 2000},
     pressure : {101325}, wind : {250}, par : {1500},
     gh : {384, 3466}, gw : {0 - 82, 0, 1, 214}, rnet : {0, 400}]

EtInit ==
    /\ pc = "calc_et"
    /\ lastEnergy \in EtArguments
    /\ variant = "joint"
    /\ self = NoSelf
    /\ env = NoEnv
    /\ dleaf = 0 /\ Cs = 0 /\ Ci = 0 /\ Tleaf = 0 /\ Tleaf_K = 0 /\ iter = 0
    /\ An = 0 /\ gs = 0 /\ new_tleaf = 0 /\ et = 0 /\ gbH = 0 /\ gw = 0
    /\ result = <<>>
    /\ exc = NoExc
    /\ farq = <<>> /\ stom = <<>> /\ leaf = <<>>
    /\ calls = NoCalls
    /\ lastPhoto = NoArgs /\ lastCond = NoArgs
    /\ gsBy = "none"
    /\ solves = 0
    /\ seen = {}
    /\ NoSweep

calc_et_call ==
    /\ pc = "calc_et"
    /\ LET a == lastEnergy
           r == calc_et(a.tleaf, a.tair, a.vpd, a.pressure, a.wind, a.par,
                        a.gh, a.gw, a.rnet)
       IN  IF r.err = "ok"
           THEN result' = <<r.et, r.lambda_et>> /\ exc' = exc
           ELSE result' = result /\ exc' = Fault(r.err, "calc_et")
    /\ pc' = "calc_et_done"
    /\ UNCHANGED <<variant, sweep, self, env, locals, oracle, log, solves, seen>>

EtNext == calc_et_call

SpecEt == EtInit /\ [][EtNext]_vars

(***************************************************************************)
(* The sweep driver of plot_vpd_vs_pft_g1_sens2.py: get_values(vpd, Ca,    *)
(* tair, par, pressure, C) on an instance C of the solver file next to it  *)
(* (the second variant).                                                   *)
(***************************************************************************)
SweepTemps == {2000, 2500}

TairSequences == UNION {[1..n -> SweepTemps] : n \in 0..MaxPoints}

SweepArguments ==
    [vpd : {1000}, Ca : {400}, tair : TairSequences, par : {1500},
     pressure : {101325}]

\* et*18*0.001*86400. with et in umol m-2 s-1: the value in 1e-7 mm day-1
to_mm_day(e) == e * 18 * 864

\* the list with the new value in front
Collect_front(list, v) == <<v>> \o list

\* store.append(...)
Collect(list, v) == Append(list, v)

SweepInit ==
    /\ pc = "new"
    /\ variant = "separate"
    /\ self = NoSelf
    /\ env = NoEnv
    /\ dleaf = 0 /\ Cs = 0 /\ Ci = 0 /\ Tleaf = 0 /\ Tleaf_K = 0 /\ iter = 0
    /\ An = 0 /\ gs = 0 /\ new_tleaf = 0 /\ et = 0 /\ gbH = 0 /\ gw = 0
    /\ result = <<>>
    /\ exc = NoExc
    /\ farq = <<>> /\ stom = <<>> /\ leaf = <<>>
    /\ calls = NoCalls
    /\ lastPhoto = NoArgs /\ lastCond = NoArgs /\ lastEnergy = NoArgs
    /\ gsBy = "none"
    /\ solves = 0
    /\ seen = {}
    /\ NoSweep

\* def get_values(vpd, Ca, tair, par, pressure, C): store = []
get_values_call ==
    /\ sweep_pc = "script"
    /\ pc = "idle"
    /\ \E a \in SweepArguments : sweep_args' = a
    /\ store' = <<>>
    /\ sweep_i' = 0
    /\ sweep_pc' = "for"
    /\ UNCHANGED <<pc, variant, self, env, locals, result, exc, oracle, log,
                   solves, seen, sweep_result>>

\* for ta in tair: C.main(ta, par, vpd, wind, pressure, Ca)
get_values_for ==
    /\ sweep_pc = "for"
    /\ sweep_i < Len(sweep_args.tair)
    /\ main_entry([tair |-> sweep_args.tair[sweep_i + 1], par |-> sweep_args.par,
                   vpd |-> sweep_args.vpd, wind |-> wind_global,
                   pressure |-> sweep_args.pressure, Ca |-> sweep_args.Ca])
    /\ sweep_i' = sweep_i + 1
    /\ sweep_pc' = "main"
    /\ UNCHANGED <<sweep_args, store, sweep_result>>

\* (An, gs, et) = ...; store.append(et*18*0.001*86400.)
get_values_append ==
    /\ sweep_pc = "main"
    /\ pc = "returned"
    /\ store' = Collect(store, to_mm_day(result[3]))
    /\ sweep_pc' = "for"
    /\ UNCHANGED <<pc, variant, self, env, locals, result, exc, oracle, log,
                   solves, seen, sweep_args, sweep_i, sweep_result>>

\* main raised: nothing in get_values catches, the exception leaves it
get_values_raise ==
    /\ sweep_pc = "main"
    /\ pc \in {"raised", "fault"}
    /\ sweep_pc' = "raised"
    /\ UNCHANGED <<pc, variant, self, env, locals, result, exc, oracle, log,
                   solves, seen, sweep_args, sweep_i, store, sweep_result>>

\* the for loop is exhausted: return store
get_values_return ==
    /\ sweep_pc = "for"
    /\ sweep_i = Len(sweep_args.tair)
    /\ sweep_result' = store
    /\ sweep_pc' = "returned"
    /\ UNCHANGED <<pc, variant, self, env, locals, result, exc, oracle, log,
                   solves, seen, sweep_args, sweep_i, store>>

SweepNext ==
    \/ CoupledModel_init
    \/ get_values_call
    \/ get_values_for
    \/ Photosynthesis
    \/ Conductance
    \/ EnergyBalance
    \/ Update
    \/ Test
    \/ FinalPhotosynthesis
    \/ FinalConductance
    \/ get_values_append
    \/ get_values_raise
    \/ get_values_return

SpecSweep == SweepInit /\ [][SweepNext]_vars

(***************************************************************************)
(* Properties.                                                             *)
(***************************************************************************)
LoopExit == {"final", "final_gs", "returned"}

\* C1: main leaves the loop towards its return only from a pass in which
\* the leaf temperature used in the pass and the new leaf temperature the
\* energy balance returned in that pass differ by less than 0.02.
C1_ReturnOnlyOnConvergence ==
    pc \in LoopExit =>
        /\ calls.energy >= 1
        /\ lastEnergy.tleaf = Tleaf
        /\ new_tleaf = Tleaf + leaf[lastEnergy].delta
        /\ Tleaf - new_tleaf \in {0 - 1, 0, 1}

\* a return from the second pass, after a pass that did not converge
C1_Witness ==
    /\ pc = "returned"
    /\ calls.energy = 2
    /\ new_tleaf < Tleaf
    /\ Tleaf # env.tair

\* C2: the no-convergence error is raised after exactly iter_max + 1
\* executions of the loop body.
C2_RaisedAfterIterMaxPlusOne ==
    pc = "raised" =>
        /\ calls.energy = self.iter_max + 1
        /\ calls.photo = self.iter_max + 1

\* C3 (as amended): the no-convergence failure carries the iteration count,
\* which is iter_max + 1, and nothing else: no leaf temperature, surface CO2
\* or leaf-to-air deficit.
C3_FailureCarriesCountOnly ==
    pc = "raised" =>
        /\ exc.type = "Exception"
        /\ exc.fmt = "No convergence: %d"
        /\ exc.values = <<iter>>
        /\ iter = self.iter_max + 1

\* a failure raised with a leaf state that differs from the ambient one
C3_Witness ==
    /\ pc = "raised"
    /\ exc.values = <<2>>
    /\ Tleaf # env.tair
    /\ Cs # env.Ca

\* C3 (as claimed): the failure carries the iteration count and the last
\* LeafState (leaf temperature, surface CO2, leaf-to-air deficit).
C3_FailureCarriesLeafState ==
    pc = "raised" => exc.values = <<iter, Tleaf, Cs, dleaf>>

\* C4: a call of main in which every sub-model call returned a value (on a
\* model with physical parameters and a configured conductance strategy,
\* in wind),
\* once ended, has ended in the Converged terminal (a return) or the
\* Diverged terminal (the no-convergence error).
C4_EndsConvergedOrDiverged ==
    (pc \in Terminal /\ self.leaf_width > 0 /\ self.Vcmax25 > 0
       /\ self.gs_model # "None" /\ env.wind > 0
       /\ exc.at # "calc_leaf_temp")
    => pc \in {"returned", "raised"}

\* C5: the first photosynthesis call of a solve receives the ambient CO2
\* and tair + 273.15, the first deficit used is the ambient vpd, and the
\* discounted Ci of the second variant is passed to no sub-model.
C5_FirstCallsSeeAmbient ==
    /\ calls.photo = 1 =>
          /\ lastPhoto.Tleaf = env.tair + 27315
          /\ variant = "joint" =>
                lastPhoto.Cs = env.Ca /\ lastPhoto.vpd = env.vpd
          /\ variant = "separate" => lastPhoto.Ci = env.Ca
    /\ (calls.photo = 1 /\ calls.cond = 1) =>
          lastCond.dleaf = env.vpd /\ lastCond.Cs = env.Ca
    /\ (variant = "separate" /\ calls.photo >= 1) =>
          lastPhoto.Ci # (env.Ca * 7) \div 10
    /\ (variant = "separate" /\ calls.cond >= 1) =>
          lastCond.Cs # (env.Ca * 7) \div 10

\* the second variant after its first photosynthesis and conductance calls
C5_Witness ==
    /\ variant = "separate"
    /\ calls.photo = 1
    /\ calls.cond = 1
    /\ Ci = (env.Ca * 7) \div 10
    /\ pc = "energy"

\* C6: every conductance the solver computes with a conductance strategy,
\* the returned one included, comes from the configured strategy.
C6_GsFromConfiguredStrategy ==
    (variant = "separate" /\ gsBy # "none") => gsBy = self.gs_model

\* C7: a pass whose energy balance yields gw <= 0 (with a boundary-layer
\* conductance that is not zero) completes with transpiration 0 and
\* reaches the convergence test without a fault.
C7_DegenerateGwCompletesPass ==
    [][(pc = "update" /\ gw <= 0 /\ gbH # 0)
          => (pc' = "test" /\ et = 0)]_vars

\* C8: calc_et returns exactly (0, 0) whenever gw <= 0, whatever the other
\* arguments, without a division fault; with gw > 0 it returns the
\* Penman-Monteith quotient arg1 / arg2 and that quotient over lambda_et.
C8_CalcEtZeroWithoutConductance ==
    pc = "calc_et_done" =>
        LET a      == lastEnergy
            lam    == latent_heat(a.tair)
            slope  == esat_slope(a.tair, a.pressure)
            gamma  == psychrometric(a.pressure, lam)
            arg1   == (slope * a.rnet) \div 100
                      + (((a.vpd * a.gh) \div 1000) * 2929) \div 100
        IN  /\ exc = NoExc
            /\ Len(result) = 2
            /\ a.gw <= 0 => result = <<0, 0>>
            /\ a.gw > 0 =>
                  LET arg2 == slope + (gamma * a.gh) \div a.gw
                      le   == result[2]
                  IN  /\ le * arg2 <= arg1 * 1000
                      /\ arg1 * 1000 < (le + 1) * arg2
                      /\ result[1] = (le * 100000) \div lam

\* calc_et applied with gw = 0 and a positive radiation and deficit
C8_Witness ==
    /\ pc = "calc_et_done"
    /\ lastEnergy.gw = 0
    /\ lastEnergy.rnet = 400
    /\ lastEnergy.vpd = 2000
    /\ result = <<0, 0>>

NonPhysical(a) == a.leaf_width <= 0 \/ a.Vcmax25 <= 0 \/ a.Jmax25 <= 0

\* C9 (as amended): the constructor stores any arguments, non-physical ones
\* too, and raises nothing; a solve on a model with a non-positive leaf
\* width then fails inside its first loop pass, with a ZeroDivisionError or
\* ValueError of the arithmetic.
C9_AcceptedThenFailsInLoop ==
    /\ pc # "new" =>
          self \in ConstructorArgs(variant) /\ exc.type # "InvalidParameterError"
    /\ (pc \in Terminal /\ self.leaf_width <= 0) =>
          /\ pc = "fault"
          /\ calls.photo = 1
          /\ calls.energy = 1
          /\ exc.type \in {"ZeroDivisionError", "ValueError"}
          /\ exc.at \in {"calc_leaf_temp", "Cs"}

\* a model of leaf width 0 whose first pass fails in the energy balance
C9_Witness ==
    /\ self.leaf_width = 0
    /\ pc = "fault"
    /\ exc.type = "ZeroDivisionError"
    /\ exc.at = "calc_leaf_temp"
    /\ calls.energy = 1
    /\ env.wind > 0

\* C9 (as claimed): non-physical configuration is rejected at construction,
\* so no loop pass ever runs on a model holding it.
C9_RejectedAtConstruction ==
    calls.photo >= 1 => ~NonPhysical(self)

\* C10: the outcome of main (result or failure, and number of passes)
\* depends only on the call's arguments and the constructor parameters:
\* two finished calls with the same arguments have the same outcome,
\* whatever was solved before each.
C10_SolvesIndependent ==
    \A a \in seen, b \in seen : a.env = b.env => a = b

\* the same point solved twice, each time to the iteration cap
C10_Witness ==
    /\ solves = 2
    /\ pc = "raised"
    /\ Cardinality(seen) = 1
    /\ calls.energy >= 2

\* C11: get_values calls main once per element of tair, in input order (the
\* k-th call gets tair[k] and the other arguments unchanged); when every
\* call returned, it returns a list as long as tair whose i-th element is
\* et * 18 * 0.001 * 86400 of the solve of tair[i]; when a call raises, the
\* exception leaves get_values at once, no further call is made and no
\* list is returned.
C11_SweepAlignedOrAborted ==
    /\ sweep_pc # "script" =>
          /\ solves = sweep_i
          /\ sweep_i <= Len(sweep_args.tair)
    /\ sweep_pc \in {"main", "raised"} =>
          /\ env = [tair |-> sweep_args.tair[sweep_i], par |-> sweep_args.par,
                    vpd |-> sweep_args.vpd, wind |-> 250,
                    pressure |-> sweep_args.pressure, Ca |-> sweep_args.Ca]
          /\ Len(store) = sweep_i - 1
    /\ sweep_pc = "for" => Len(store) = sweep_i
    /\ sweep_pc # "returned" => sweep_result = <<>>
    /\ sweep_pc = "raised" => pc \in {"raised", "fault"} /\ exc # NoExc
    /\ sweep_pc = "returned" =>
          /\ solves = Len(sweep_args.tair)
          /\ Len(sweep_result) = Len(sweep_args.tair)
          /\ \A i \in 1..Len(sweep_args.tair) :
                /\ \E o \in seen : o.env.tair = sweep_args.tair[i]
                /\ \A o \in seen :
                      o.env.tair = sweep_args.tair[i] =>
                         /\ o.pc = "returned"
                         /\ sweep_result[i] * 10 = o.result[3] * 155520

\* a sweep over two different temperatures that returned two different values
C11_Witness ==
    /\ sweep_pc = "returned"
    /\ sweep_args.tair = <<2500, 2000>>
    /\ Len(sweep_result) = 2
    /\ sweep_result[1] > sweep_result[2]
    /\ sweep_result[2] > 0

InLoop == {"photo", "cond", "energy", "update", "test"}

\* a step of a loop pass leaves the inputs alone, and the energy balance
\* is called with the ambient ones
PassKeepsInputs ==
    pc \in InLoop =>
        /\ env' = env
        /\ self' = self
        /\ variant' = variant
        /\ pc = "energy" =>
              /\ lastEnergy'.vpd = env.vpd
              /\ lastEnergy'.tair = env.tair
              /\ lastEnergy'.par = env.par
              /\ lastEnergy'.pressure = env.pressure
              /\ lastEnergy'.wind = env.wind

\* C12: no step of a loop pass changes the arguments of main (tair, par,
\* vpd, wind, pressure, Ca) or an attribute of the model; and every call
\* of the energy balance gets the ambient vpd and tair (and par, pressure,
\* wind) of the call, whatever the leaf-to-air deficit and the leaf
\* temperature have become.
C12_InputsUnchangedByPass ==
    [][PassKeepsInputs]_vars

\* the second pass of a solve after its energy balance: leaf temperature,
\* surface CO2 and deficit have all left their ambient values
C12_Witness ==
    /\ pc = "update"
    /\ variant = "joint"
    /\ calls.energy = 2
    /\ iter = 1
    /\ Tleaf # env.tair
    /\ Cs # env.Ca
    /\ dleaf # env.vpd
    /\ lastEnergy.vpd = env.vpd
    /\ lastEnergy.tair = env.tair

\* C13: after every loop pass on a model of physical parameters, in a pass
\* with positive stomatal conductance, whatever the wind (wind = 0 too, where
\* the first pass has gbH = 0), surface CO2 and leaf-to-air deficit have
\* been given a value (neither update raised) and the deficit is >= 0.
C13_LeafStateDefinedAfterPass ==
    (~NonPhysical(self) /\ gs > 0) =>
        /\ ~(pc = "fault" /\ exc.at \in {"Cs", "dleaf"})
        /\ pc = "test" => dleaf >= 0

\* the pass at hand has called the energy balance
AfterEnergy == {"update", "test", "final", "final_gs", "returned", "raised"}

ConvergedPassReturns ==
    /\ (pc = "test" /\ fabs(Tleaf - new_tleaf) < 2) =>
          /\ pc' = IF variant = "joint" THEN "returned" ELSE "final"
          /\ exc' = NoExc
          /\ variant = "joint" => result' = <<An, gs, et>>
    /\ pc' = "raised" =>
          /\ pc = "test"
          /\ fabs(Tleaf - new_tleaf) >= 2
          /\ iter > self.iter_max

\* C15: a pass whose convergence test holds leads to the return of main,
\* never to the no-convergence error, whatever iter is (also iter >
\* iter_max); the error is raised only from a pass whose convergence test
\* failed.
C15_ConvergenceBeforeCap ==
    [][ConvergedPassReturns]_vars

\* a return from a pass in which the counter already exceeded iter_max
C15_Witness ==
    /\ pc = "returned"
    /\ iter > self.iter_max
    /\ calls.energy = iter + 1
    /\ fabs(Tleaf - new_tleaf) < 2

=============================================================================
